---- MODULE Spec2Model ----
(***************************************************************************)
(* Model of the DataPower-to-AWS gateway code:                             *)
(*   generated_aws_code/authorizer.py    (Lambda authorizer, LDAP)         *)
(*   generated_aws_code/transformer.py   (JSON -> SOAP translation)        *)
(*   generated_aws_code/rewrite_handler.py (CloudFront request rewrite)    *)
(* Strings that the code inspects character by character (the             *)
(* Authorization header, the decoded credential) are sequences of code     *)
(* points; all other strings are TLA+ strings.                             *)
(***************************************************************************)
EXTENDS Integers, Sequences, FiniteSets, TLC

VARIABLES
    ldap_secret,   \* authorizer.py:17   process-wide cached secret
    pc,            \* position of the authorizer handler
    event,         \* the authorizer event being handled
    secret,        \* handler local: secret = get_ldap_secret()
    username,      \* handler local (code points)
    password,      \* handler local (code points)
    extracted,     \* TRUE once line 51 has assigned username, password
    entries,       \* conn.entries of the user search (line 67)
    user_dn,       \* handler local (line 73)
    user_bound,    \* TRUE once the bind as user_dn (line 76) has succeeded
    group_entries, \* admin_conn.entries of the membership search (line 82)
    is_member,     \* handler local (line 82)
    ops,           \* directory operations performed by this invocation
    fault,         \* the fault raised inside the try block, "none" if none
    ret_line,      \* source line of the statement that ended the invocation
    result,        \* what the caller of the authorizer handler gets
    t_pc,          \* position of the transformer handler
    t_event,       \* the transformer event being handled
    soap_request,  \* transformer local: the envelope handed to requests.post
    backend,       \* what requests.post produced for this invocation
    backend_calls, \* number of requests.post calls of this invocation
    t_line,        \* source line of the transformer's return statement
    t_fault,       \* exception class caught by the transformer, "none" if none
    response,      \* what the caller of the transformer handler gets
    c_pc,          \* per thread: position inside get_ldap_secret
    c_resp,        \* per thread: the secret parsed from the fetched response
    c_warm,        \* per thread: the cache held a secret when it was invoked
    r_pc,          \* position of the rewrite handler
    r_request,     \* rewrite handler: event['Records'][0]['cf']['request']
    r_result       \* what the caller of the rewrite handler gets

vars == <<ldap_secret, pc, event, secret, username, password, extracted,
          entries, user_dn, user_bound, group_entries, is_member, ops, fault,
          ret_line, result, t_pc, t_event, soap_request, backend,
          backend_calls, t_line, t_fault, response, c_pc, c_resp, c_warm,
          r_pc, r_request, r_result>>

authVars == <<ldap_secret, pc, event, secret, username, password, extracted,
              entries, user_dn, user_bound, group_entries, is_member, ops,
              fault, ret_line, result>>

\* the locals and the outcome of the sequential authorizer invocation
handlerVars == <<pc, event, secret, username, password, extracted, entries,
                 user_dn, user_bound, group_entries, is_member, ops, fault,
                 ret_line, result>>

xformVars == <<t_pc, t_event, soap_request, backend, backend_calls, t_line,
               t_fault, response>>

cacheVars == <<c_pc, c_resp, c_warm>>

rewriteVars == <<r_pc, r_request, r_result>>

\* what an action of one component leaves alone in the others
notAuthVars == <<xformVars, cacheVars, rewriteVars>>

notXformVars == <<authVars, cacheVars, rewriteVars>>

(***************************************************************************)
(* Bounds                                                                  *)
(***************************************************************************)
MaxEntries == 2      \* longest directory search result

(***************************************************************************)
(* Strings as sequences of code points                                     *)
(***************************************************************************)
SPACE == 32
COLON == 58
PAD   == 61

\* 'user'                                     authorizer.py:47, :121
PlaceholderPrincipal == <<117, 115, 101, 114>>
\* 'basic '                                   authorizer.py:45
BasicPrefix == <<98, 97, 115, 105, 99, 32>>

\* str.lower() on one code point (ASCII letters; the model's headers are ASCII)
LowerChar(c) == IF c >= 65 /\ c <= 90 THEN c + 32 ELSE c

lower(s) == [i \in 1..Len(s) |-> LowerChar(s[i])]

startswith(s, p) == Len(s) >= Len(p) /\ SubSeq(s, 1, Len(p)) = p

\* index of the first occurrence of c in s at or after position i, 0 if none
RECURSIVE find(_, _, _)
find(s, c, i) ==
    IF i > Len(s) THEN 0
    ELSE IF s[i] = c THEN i
    ELSE find(s, c, i + 1)

\* s.split(' ')[1], defined when s contains a space
SplitSecond(s) ==
    LET first == find(s, SPACE, 1)
        next  == find(s, SPACE, first + 1)
    IN  IF next = 0 THEN SubSeq(s, first + 1, Len(s))
        ELSE SubSeq(s, first + 1, next - 1)

\* value of a base64 alphabet character, 64 for any other character
B64Value(c) ==
    IF c >= 65 /\ c <= 90 THEN c - 65
    ELSE IF c >= 97 /\ c <= 122 THEN c - 97 + 26
    ELSE IF c >= 48 /\ c <= 57 THEN c - 48 + 52
    ELSE IF c = 43 THEN 62
    ELSE IF c = 47 THEN 63
    ELSE 64

\* binascii.a2b_base64 in its default (non-strict) mode: characters outside
\* the alphabet are discarded, a pad sequence that completes a quad ends the
\* parse, and a trailing incomplete quad is an error.
RECURSIVE a2b_base64(_, _, _, _, _, _)
a2b_base64(s, i, quad_pos, leftchar, pads, out) ==
    IF i > Len(s)
    THEN [ok |-> quad_pos = 0, val |-> out]
    ELSE IF s[i] = PAD
    THEN IF quad_pos >= 2 /\ quad_pos + pads + 1 >= 4
         THEN [ok |-> TRUE, val |-> out]
         ELSE a2b_base64(s, i + 1, quad_pos, leftchar,
                         IF quad_pos >= 2 THEN pads + 1 ELSE pads, out)
    ELSE LET v == B64Value(s[i]) IN
         IF v >= 64
         THEN a2b_base64(s, i + 1, quad_pos, leftchar, pads, out)
         ELSE CASE quad_pos = 0 ->
                     a2b_base64(s, i + 1, 1, v, 0, out)
                [] quad_pos = 1 ->
                     a2b_base64(s, i + 1, 2, v % 16, 0,
                                Append(out, leftchar * 4 + (v \div 16)))
                [] quad_pos = 2 ->
                     a2b_base64(s, i + 1, 3, v % 4, 0,
                                Append(out, leftchar * 16 + (v \div 4)))
                [] OTHER ->
                     a2b_base64(s, i + 1, 0, 0, 0,
                                Append(out, leftchar * 64 + v))

\* base64.b64decode(s) for a str argument: non-ASCII text is rejected
b64decode(s) ==
    IF \E i \in 1..Len(s) : s[i] >= 128
    THEN [ok |-> FALSE, val |-> <<>>]
    ELSE a2b_base64(s, 1, 0, 0, 0, <<>>)

IsCont(b) == b >= 128 /\ b <= 191

\* bytes.decode('utf-8'): strict decoding into code points
RECURSIVE utf8_decode(_, _, _)
utf8_decode(b, i, out) ==
    LET n == Len(b) - i + 1
        Bad == [ok |-> FALSE, val |-> <<>>]
    IN
    IF i > Len(b) THEN [ok |-> TRUE, val |-> out]
    ELSE IF b[i] < 128
    THEN utf8_decode(b, i + 1, Append(out, b[i]))
    ELSE IF b[i] >= 194 /\ b[i] <= 223
    THEN IF n >= 2 /\ IsCont(b[i + 1])
         THEN utf8_decode(b, i + 2,
                  Append(out, (b[i] - 192) * 64 + (b[i + 1] - 128)))
         ELSE Bad
    ELSE IF b[i] >= 224 /\ b[i] <= 239
    THEN IF /\ n >= 3
            /\ IsCont(b[i + 1])
            /\ IsCont(b[i + 2])
            /\ (b[i] = 224 => b[i + 1] >= 160)
            /\ (b[i] = 237 => b[i + 1] <= 159)
         THEN utf8_decode(b, i + 3,
                  Append(out, (b[i] - 224) * 4096 + (b[i + 1] - 128) * 64
                              + (b[i + 2] - 128)))
         ELSE Bad
    ELSE IF b[i] >= 240 /\ b[i] <= 244
    THEN IF /\ n >= 4
            /\ IsCont(b[i + 1])
            /\ IsCont(b[i + 2])
            /\ IsCont(b[i + 3])
            /\ (b[i] = 240 => b[i + 1] >= 144)
            /\ (b[i] = 244 => b[i + 1] <= 143)
         THEN utf8_decode(b, i + 4,
                  Append(out, (b[i] - 240) * 262144 + (b[i + 1] - 128) * 4096
                              + (b[i + 2] - 128) * 64 + (b[i + 3] - 128)))
         ELSE Bad
    ELSE Bad

\* decoded_creds.rsplit(':', 1): the split taken at the last colon
SplitCredsAtLastColon(s) ==
    LET k == CHOOSE i \in 0..Len(s) :
                 /\ (i > 0 => s[i] = COLON)
                 /\ \A j \in (i + 1)..Len(s) : s[j] # COLON
    IN  IF k = 0 THEN [ok |-> FALSE, username |-> <<>>, password |-> <<>>]
        ELSE [ok |-> TRUE,
              username |-> SubSeq(s, 1, k - 1),
              password |-> SubSeq(s, k + 1, Len(s))]

\* decoded_creds.split(':', 1) unpacked into two names: needs a colon
SplitCreds(s) ==
    LET k == find(s, COLON, 1) IN
    IF k = 0 THEN [ok |-> FALSE, username |-> <<>>, password |-> <<>>]
    ELSE [ok |-> TRUE,
          username |-> SubSeq(s, 1, k - 1),
          password |-> SubSeq(s, k + 1, Len(s))]

(***************************************************************************)
(* authorizer.py: data                                                     *)
(***************************************************************************)
\* Python None
None == [kind |-> "None"]

\* The Authorization header values the model presents (code points), with
\* the text each one stands for.
TestHeaders == {
    <<66,97,115,105,99,32,89,87,119,54,99,72,99,61>>,       \* "Basic YWw6cHc="   al:pw
    <<98,97,115,105,99,32,89,87,119,54,99,72,99,61>>,       \* "basic YWw6cHc="   al:pw
    <<66,97,115,105,99,32,89,84,112,105,79,109,77,61>>,     \* "Basic YTpiOmM="   a:b:c
    <<66,65,83,73,67,32,89,84,112,105,79,109,77,61>>,       \* "BASIC YTpiOmM="   a:b:c
    <<66,97,115,105,99,32,79,110,66,51>>,                   \* "Basic OnB3"       :pw
    <<66,97,115,105,99,32,89,87,119,54>>,                   \* "Basic YWw6"       al:
    <<66,97,115,105,99,32,119,54,107,54,101,65,61,61>>,     \* "Basic w6k6eA=="   U+00E9:x
    <<66,97,115,105,99,32,89,87,119,54,33,99,72,99,61>>,    \* "Basic YWw6!cHc="  stray '!'
    <<66,101,97,114,101,114,32,89,87,119,54,99,72,99,61>>,  \* "Bearer YWw6cHc="
    <<89,87,119,54,99,72,99,61>>,                           \* "YWw6cHc="         no scheme
    <<66,97,115,105,99>>,                                   \* "Basic"
    <<>>,                                                   \* ""
    <<66,97,115,105,99,32>>,                                \* "Basic "
    <<66,97,115,105,99,32,32,89,87,119,54,99,72,99,61>>,    \* "Basic  YWw6cHc="  two spaces
    <<66,97,115,105,99,32,89,87,120,119,100,119,61,61>>,    \* "Basic YWxwdw=="   alpw
    <<66,97,115,105,99,32,89,87,119,54,99,72>>,             \* "Basic YWw6cH"     bad padding
    <<66,97,115,105,99,32,89>>,                             \* "Basic Y"
    <<66,97,115,105,99,32,47,119,61,61>>                    \* "Basic /w=="       byte 0xFF
}

\* event.get('headers', {}): the key absent, JSON null, or a mapping with or
\* without an Authorization entry
HeadersValues ==
    {[kind |-> "absent", has_auth |-> FALSE, auth |-> <<>>],
     [kind |-> "null",   has_auth |-> FALSE, auth |-> <<>>],
     [kind |-> "dict",   has_auth |-> FALSE, auth |-> <<>>]}
    \cup {[kind |-> "dict", has_auth |-> TRUE, auth |-> h] : h \in TestHeaders}

MethodArnValues ==
    {[present |-> FALSE, value |-> ""],
     [present |-> TRUE,  value |-> "arn:aws:execute-api:eu:1:api/stage/POST/v1/customer"]}

AuthEvents == [headers : HeadersValues, methodArn : MethodArnValues]

NoAuthEvent == [headers |-> [kind |-> "absent", has_auth |-> FALSE, auth |-> <<>>],
                methodArn |-> [present |-> FALSE, value |-> ""]]

\* keys of the secret document read by the handler   authorizer.py:39-42,54-55
RequiredKeys == {"host", "base_dn", "bind_dn", "bind_password"}

\* What json.loads(SecretString) can produce: a mapping (with some keys, and
\* a port that int() accepts or not) or another JSON value such as a string.
NoSecret == [kind |-> "None", keys |-> {}, port_ok |-> TRUE]

SecretValues ==
    {[kind |-> "dict", keys |-> RequiredKeys \cup {"port", "use_ssl"}, port_ok |-> TRUE],
     [kind |-> "dict", keys |-> RequiredKeys, port_ok |-> TRUE],
     [kind |-> "dict", keys |-> RequiredKeys \cup {"port"}, port_ok |-> FALSE],
     [kind |-> "dict", keys |-> RequiredKeys \ {"host"}, port_ok |-> TRUE],
     [kind |-> "dict", keys |-> RequiredKeys \ {"bind_dn"}, port_ok |-> TRUE],
     [kind |-> "dict", keys |-> {}, port_ok |-> TRUE],
     [kind |-> "str",  keys |-> {}, port_ok |-> TRUE]}

\* Python truth value of the cached secret            authorizer.py:22
SecretTruthy(s) == (s.kind = "dict" /\ s.keys # {}) \/ s.kind = "str"

DNs == {"uid=al,ou=Users,dc=x", "uid=bo,ou=Users,dc=x"}
GroupDN == "cn=Underwriters,ou=Groups,dc=x"

\* conn.entries after the user search: any ordered result up to MaxEntries
SearchResults == UNION {[1..n -> DNs] : n \in 0..MaxEntries}

\* admin_conn.entries after the membership search
GroupResults == UNION {[1..n -> {GroupDN}] : n \in 0..MaxEntries}

(***************************************************************************)
(* authorizer.py: policy construction                                      *)
(***************************************************************************)
\* generate_policy without the `if context:` test: the key is always set
generate_policy_always_context(principal_id, effect, resource, context) ==
    [principalId |-> principal_id,
     policyDocument |-> [Version |-> "2012-10-17",
                         Statement |-> <<[Action |-> "execute-api:Invoke",
                                          Effect |-> effect,
                                          Resource |-> resource]>>],
     context |-> context]

\* generate_policy                                     authorizer.py:99-115
generate_policy(principal_id, effect, resource, context) ==
    LET doc == [Version |-> "2012-10-17",
                Statement |-> <<[Action |-> "execute-api:Invoke",
                                 Effect |-> effect,
                                 Resource |-> resource]>>]
    IN  IF context.kind = "dict"
        THEN [principalId |-> principal_id, policyDocument |-> doc,
              context |-> context]
        ELSE [principalId |-> principal_id, policyDocument |-> doc]

\* generate_allow_policy                               authorizer.py:117-118
generate_allow_policy(principal_id, resource, context) ==
    generate_policy(principal_id, "Allow", resource, context)

\* generate_deny_policy                                authorizer.py:120-121
generate_deny_policy(resource) ==
    generate_policy(PlaceholderPrincipal, "Deny", resource, None)

(***************************************************************************)
(* authorizer.py: handler                                                  *)
(***************************************************************************)
\* the value the caller gets before any invocation has finished
NoResult == [kind |-> "none", policy |-> None]

\* The invocation ends at source line `line`: the caller gets a policy
\* (kind "return") or the exception that left the handler (kind "raise").
Finish(line, kind, policy, flt) ==
    /\ pc' = "done"
    /\ ret_line' = line
    /\ result' = [kind |-> kind, policy |-> policy]
    /\ fault' = flt

\* except Exception: return generate_deny_policy(event['methodArn'])
\* The subscript raises KeyError when the event has no methodArn, and that
\* exception is raised outside any try block.       authorizer.py:95-97
Except(flt) ==
    IF event.methodArn.present
    THEN Finish(97, "return", generate_deny_policy(event.methodArn.value), flt)
    ELSE Finish(97, "raise", [exc |-> "KeyError"], flt)

\* return generate_deny_policy(event['methodArn']) inside the try block
\*                                                   authorizer.py:71, :85
ReturnDeny(line) ==
    IF event.methodArn.present
    THEN Finish(line, "return", generate_deny_policy(event.methodArn.value), "none")
    ELSE Except("methodArn")

\* a new event arrives; the process keeps its cached secret
Invoke(e) ==
    /\ pc \in {"idle", "done"}
    /\ pc' = "get_secret"
    /\ event' = e
    /\ secret' = NoSecret
    /\ username' = <<>>
    /\ password' = <<>>
    /\ extracted' = FALSE
    /\ entries' = <<>>
    /\ user_dn' = ""
    /\ user_bound' = FALSE
    /\ group_entries' = <<>>
    /\ is_member' = FALSE
    /\ ops' = <<>>
    /\ fault' = "none"
    /\ ret_line' = 0
    /\ result' = NoResult
    /\ UNCHANGED ldap_secret
    /\ UNCHANGED notAuthVars

\* get_ldap_secret                                    authorizer.py:19-31, :38
get_ldap_secret ==
    /\ pc = "get_secret"
    /\ \/ /\ SecretTruthy(ldap_secret)
          /\ secret' = ldap_secret
          /\ pc' = "extract"
          /\ UNCHANGED <<ldap_secret, fault, ret_line, result>>
       \/ /\ ~SecretTruthy(ldap_secret)
          /\ \E s \in SecretValues :
                /\ ldap_secret' = s
                /\ secret' = s
          /\ pc' = "extract"
          /\ UNCHANGED <<fault, ret_line, result>>
       \/ \* get_secret_value or json.loads raises; line 31 re-raises
          /\ ~SecretTruthy(ldap_secret)
          /\ Except("secret")
          /\ UNCHANGED <<ldap_secret, secret>>
    /\ UNCHANGED <<event, username, password, extracted, entries, user_dn,
                   user_bound, group_entries, is_member, ops>>
    /\ UNCHANGED notAuthVars

\* secret['host'], int(secret.get('port', 389)), secret['base_dn']  lines 39-42
ConfigFault(s) ==
    \/ s.kind # "dict"
    \/ "host" \notin s.keys
    \/ ("port" \in s.keys /\ ~s.port_ok)
    \/ "base_dn" \notin s.keys

\* secret['bind_dn'], secret['bind_password']          lines 54-55
BindConfigFault(s) ==
    \/ "bind_dn" \notin s.keys
    \/ "bind_password" \notin s.keys

\* event.get('headers', {}).get('Authorization')       line 44
\* (defined when the headers value is not null)
AuthHeader(e) ==
    IF e.headers.kind = "dict" /\ e.headers.has_auth
    THEN [kind |-> "str", value |-> e.headers.auth]
    ELSE [kind |-> "None", value |-> <<>>]

\* the scheme test without .lower(): a case-sensitive match of 'basic '
HeaderRejectedCaseSensitive(h) ==
    \/ h.kind = "None"
    \/ h.value = <<>>
    \/ ~startswith(h.value, BasicPrefix)

\* not auth_header or not auth_header.lower().startswith('basic ')   line 45
HeaderRejected(h) ==
    \/ h.kind = "None"
    \/ h.value = <<>>
    \/ ~startswith(lower(h.value), BasicPrefix)

\* lines 49-51: the credential, or the step that raised
DecodeCredential(auth_header) ==
    LET encoded_creds == SplitSecond(auth_header)
        raw           == b64decode(encoded_creds)
        decoded_creds == utf8_decode(raw.val, 1, <<>>)
        pair          == SplitCreds(decoded_creds.val)
        Failed(why)   == [ok |-> FALSE, why |-> why,
                          username |-> <<>>, password |-> <<>>]
    IN  IF ~raw.ok THEN Failed("b64")
        ELSE IF ~decoded_creds.ok THEN Failed("utf8")
        ELSE IF ~pair.ok THEN Failed("nocolon")
        ELSE [ok |-> TRUE, why |-> "none",
              username |-> pair.username, password |-> pair.password]

\* lines 39-63: read the configuration, extract the credential
ExtractCredential ==
    /\ pc = "extract"
    /\ IF ConfigFault(secret)
       THEN Except("config") /\ UNCHANGED <<username, password, extracted>>
       ELSE IF event.headers.kind = "null"
       THEN Except("headers") /\ UNCHANGED <<username, password, extracted>>
       ELSE IF HeaderRejected(AuthHeader(event))
       THEN /\ IF event.methodArn.present
               THEN Finish(47, "return",
                           generate_policy(PlaceholderPrincipal, "Deny",
                                           event.methodArn.value, None),
                           "none")
               ELSE Except("methodArn")
            /\ UNCHANGED <<username, password, extracted>>
       ELSE LET cred == DecodeCredential(AuthHeader(event).value) IN
            IF ~cred.ok
            THEN Except(cred.why) /\ UNCHANGED <<username, password, extracted>>
            ELSE /\ username' = cred.username
                 /\ password' = cred.password
                 /\ extracted' = TRUE
                 /\ IF BindConfigFault(secret)
                    THEN Except("config")
                    ELSE /\ pc' = "bind_admin"
                         /\ UNCHANGED <<fault, ret_line, result>>
    /\ UNCHANGED <<ldap_secret, event, secret, entries, user_dn, user_bound,
                   group_entries, is_member, ops>>
    /\ UNCHANGED notAuthVars

\* Connection(server, user=bind_dn, ..., auto_bind=True)     line 65
BindAdmin ==
    /\ pc = "bind_admin"
    /\ ops' = Append(ops, "bind_admin")
    /\ \/ pc' = "search_user" /\ UNCHANGED <<fault, ret_line, result>>
       \/ Except("admin_bind")
    /\ UNCHANGED <<ldap_secret, event, secret, username, password, extracted,
                   entries, user_dn, user_bound, group_entries, is_member>>
    /\ UNCHANGED notAuthVars

\* conn.search(...); if not conn.entries: deny; user_dn = entries[0]  lines 66-73
SearchUser ==
    /\ pc = "search_user"
    /\ ops' = Append(ops, "search_user")
    /\ \/ \E r \in SearchResults :
            /\ entries' = r
            /\ IF r = <<>>
               THEN ReturnDeny(71) /\ UNCHANGED user_dn
               ELSE /\ user_dn' = r[1]
                    /\ pc' = "bind_user"
                    /\ UNCHANGED <<fault, ret_line, result>>
       \/ Except("search") /\ UNCHANGED <<entries, user_dn>>
    /\ UNCHANGED <<ldap_secret, event, secret, username, password, extracted,
                   user_bound, group_entries, is_member>>
    /\ UNCHANGED notAuthVars

\* variant: the user connection is opened without auto_bind, so a refused
\* bind does not stop the handler
BindUserIgnoringRefusal ==
    /\ pc = "bind_user"
    /\ ops' = Append(ops, "bind_user")
    /\ \/ /\ user_bound' = TRUE
          /\ pc' = "bind_admin2"
          /\ UNCHANGED <<fault, ret_line, result>>
       \/ /\ UNCHANGED user_bound
          /\ pc' = "bind_admin2"
          /\ UNCHANGED <<fault, ret_line, result>>
       \/ Except("user_bind") /\ UNCHANGED user_bound
    /\ UNCHANGED <<ldap_secret, event, secret, username, password, extracted,
                   entries, user_dn, group_entries, is_member>>
    /\ UNCHANGED notAuthVars

\* Connection(server, user=user_dn, password=password, auto_bind=True)  line 76
\* auto_bind raises when the directory refuses the bind.
BindUser ==
    /\ pc = "bind_user"
    /\ ops' = Append(ops, "bind_user")
    /\ \/ /\ user_bound' = TRUE
          /\ pc' = "bind_admin2"
          /\ UNCHANGED <<fault, ret_line, result>>
       \/ Except("bind_failed") /\ UNCHANGED user_bound
       \/ Except("user_bind") /\ UNCHANGED user_bound
    /\ UNCHANGED <<ldap_secret, event, secret, username, password, extracted,
                   entries, user_dn, group_entries, is_member>>
    /\ UNCHANGED notAuthVars

\* Connection(server, user=bind_dn, ..., auto_bind=True)     line 80
BindAdmin2 ==
    /\ pc = "bind_admin2"
    /\ ops' = Append(ops, "bind_admin2")
    /\ \/ pc' = "search_group" /\ UNCHANGED <<fault, ret_line, result>>
       \/ Except("admin_bind")
    /\ UNCHANGED <<ldap_secret, event, secret, username, password, extracted,
                   entries, user_dn, user_bound, group_entries, is_member>>
    /\ UNCHANGED notAuthVars

\* the membership test on the search's return value alone
NotInGroupByFlag(m, g) == ~m

\* if not is_member or not admin_conn.entries          line 83
NotInGroup(m, g) == ~m \/ g = <<>>

\* is_member = admin_conn.search(AUTH_GROUP_DN, ...) and what follows it
\* up to the return of the Allow policy               lines 82-93
\* search() answers True when the response is not empty; a response can
\* hold referrals only, so True can come with no entries.
SearchGroup ==
    /\ pc = "search_group"
    /\ ops' = Append(ops, "search_group")
    /\ \/ \E g \in GroupResults, m \in BOOLEAN :
            /\ g # <<>> => m
            /\ group_entries' = g
            /\ is_member' = m
            /\ IF NotInGroup(m, g)
               THEN ReturnDeny(85)
               ELSE IF event.methodArn.present
               THEN Finish(93, "return",
                           generate_allow_policy(username, event.methodArn.value,
                               [kind |-> "dict", username |-> username,
                                password |-> password]),
                           "none")
               ELSE Except("methodArn")
       \/ Except("group_search") /\ UNCHANGED <<group_entries, is_member>>
    /\ UNCHANGED <<ldap_secret, event, secret, username, password, extracted,
                   entries, user_dn, user_bound>>
    /\ UNCHANGED notAuthVars

AuthInit ==
    /\ ldap_secret = NoSecret
    /\ pc = "idle"
    /\ event = NoAuthEvent
    /\ secret = NoSecret
    /\ username = <<>>
    /\ password = <<>>
    /\ extracted = FALSE
    /\ entries = <<>>
    /\ user_dn = ""
    /\ user_bound = FALSE
    /\ group_entries = <<>>
    /\ is_member = FALSE
    /\ ops = <<>>
    /\ fault = "none"
    /\ ret_line = 0
    /\ result = NoResult

(***************************************************************************)
(* transformer.py: data                                                    *)
(***************************************************************************)
\* JSON values as json.loads builds them
JNull      == [type |-> "null"]
JStr(v)    == [type |-> "str", s |-> v]
JInt(v)    == [type |-> "int", n |-> v]
JBool(v)   == [type |-> "bool", b |-> v]
JList(vs)  == [type |-> "list", items |-> vs]
JDict(kvs) == [type |-> "dict", items |-> kvs]
Item(k, v) == [key |-> k, value |-> v]

\* Request body texts, each with what json.loads makes of it (ok = FALSE:
\* json.JSONDecodeError)
BodyTexts == {
    [raw |-> "{}", ok |-> TRUE, value |-> JDict(<<>>)],
    [raw |-> "{\"customer\": {\"name\": \"Jane\"}}", ok |-> TRUE,
     value |-> JDict(<<Item("customer", JDict(<<Item("name", JStr("Jane"))>>))>>)],
    [raw |-> "{\"customer\": {\"name\": \"Jane\", \"age\": 30}, \"address\": {\"city\": \"Pune\", \"geo\": {\"lat\": 1}}, \"employment\": {\"titles\": [\"a\", \"b\"]}}",
     ok |-> TRUE,
     value |-> JDict(<<
        Item("customer", JDict(<<Item("name", JStr("Jane")),
                                 Item("age", JInt(30))>>)),
        Item("address", JDict(<<Item("city", JStr("Pune")),
                                Item("geo", JDict(<<Item("lat", JInt(1))>>))>>)),
        Item("employment", JDict(<<Item("titles",
                                        JList(<<JStr("a"), JStr("b")>>))>>))>>)],
    [raw |-> "{\"customer\": {\"phones\": [{\"n\": \"1\"}, {\"n\": \"2\"}]}}",
     ok |-> TRUE,
     value |-> JDict(<<
        Item("customer", JDict(<<Item("phones",
            JList(<<JDict(<<Item("n", JStr("1"))>>),
                    JDict(<<Item("n", JStr("2"))>>)>>))>>))>>)],
    [raw |-> "{\"demographics\": {\"married\": true, \"kids\": 2, \"home\": {\"own\": false, \"since\": null}}}",
     ok |-> TRUE,
     value |-> JDict(<<
        Item("demographics", JDict(<<
            Item("married", JBool(TRUE)),
            Item("kids", JInt(2)),
            Item("home", JDict(<<Item("own", JBool(FALSE)),
                                 Item("since", JNull)>>))>>))>>)],
    [raw |-> "[1]", ok |-> TRUE, value |-> JList(<<JInt(1)>>)],
    [raw |-> "\"x\"", ok |-> TRUE, value |-> JStr("x")],
    [raw |-> "null", ok |-> TRUE, value |-> JNull],
    [raw |-> "{\"customer\":", ok |-> FALSE, value |-> JNull],
    [raw |-> "", ok |-> FALSE, value |-> JNull]
}

\* event['body']: the key absent, JSON null, or a string
BodyValues ==
    {[kind |-> "absent"], [kind |-> "null"]}
    \cup {[kind |-> "str", text |-> t] : t \in BodyTexts}

\* an entry of the authorizer context: absent, or a (possibly empty) string
ContextEntries(v) ==
    {[present |-> FALSE, value |-> ""],
     [present |-> TRUE,  value |-> ""],
     [present |-> TRUE,  value |-> v]}

\* event['requestContext']: the key absent, or a mapping with or without
\* an 'authorizer' mapping
RequestContexts ==
    {[present |-> FALSE, has_authorizer |-> FALSE,
      username |-> [present |-> FALSE, value |-> ""],
      password |-> [present |-> FALSE, value |-> ""]],
     [present |-> TRUE, has_authorizer |-> FALSE,
      username |-> [present |-> FALSE, value |-> ""],
      password |-> [present |-> FALSE, value |-> ""]]}
    \cup {[present |-> TRUE, has_authorizer |-> TRUE, username |-> u, password |-> w]
            : u \in ContextEntries("al"), w \in ContextEntries("pw")}

PathValues ==
    {[present |-> FALSE, value |-> ""],
     [present |-> TRUE, value |-> "/v1/customer"],
     [present |-> TRUE, value |-> "/v1/underwriting/submit"],
     [present |-> TRUE, value |-> "/v1/customer/"],
     [present |-> TRUE, value |-> "/v1/other"]}

XformEvents == [requestContext : RequestContexts, body : BodyValues,
                path : PathValues]

NoXformEvent ==
    [requestContext |-> [present |-> FALSE, has_authorizer |-> FALSE,
                         username |-> [present |-> FALSE, value |-> ""],
                         password |-> [present |-> FALSE, value |-> ""]],
     body |-> [kind |-> "absent"],
     path |-> [present |-> FALSE, value |-> ""]]

\* what the backend can answer: status codes and bodies
BackendStatuses == {200, 202, 302, 400, 404, 500, 503}
BackendTexts == {"<soap:Envelope>ok</soap:Envelope>", "<soap:Fault/>"}
\* requests.exceptions raised by requests.post itself
TransportErrors == {"Timeout", "ConnectionError"}

NoBackend == [kind |-> "none", status_code |-> 0, text |-> "", exc |-> ""]

(***************************************************************************)
(* transformer.py: XML construction                                        *)
(***************************************************************************)
\* ET.Element(tag, attrib): text is None (<<>>) until assigned (<<text>>)
Element(tag, attrib) ==
    [tag |-> tag, attrib |-> attrib, text |-> <<>>, children |-> <<>>]

NoElement == Element("", {})

\* parent.append(child) / ET.SubElement(parent, ...) once the child is built
AppendChild(parent, child) ==
    [parent EXCEPT !.children = Append(@, child)]

\* build_wsse_header                                  transformer.py:19-27
build_wsse_header(user, pass) ==
    LET user_el == [Element("wsse:Username", {}) EXCEPT !.text = <<user>>]
        pass_el == [Element("wsse:Password",
                            {<<"Type", "http://docs.oasis-open.org/wss/2004/01/oasis-200401-wss-username-token-profile-1.0#PasswordText">>})
                    EXCEPT !.text = <<pass>>]
        token   == AppendChild(AppendChild(
                       Element("wsse:UsernameToken", {<<"wsu:Id", "UsernameToken-1">>}),
                       user_el), pass_el)
    IN  AppendChild(Element("wsse:Security", {}), token)

\* create_soap_envelope                               transformer.py:29-37
\* The result stands for the serialised document: ET.tostring writes this
\* tree, escaping markup characters in text.
create_soap_envelope(body_content, wsse_header) ==
    LET header == AppendChild(Element("soap:Header", {}), wsse_header)
        body   == AppendChild(Element("soap:Body", {}), body_content)
    IN  AppendChild(AppendChild(Element("soap:Envelope", {}), header), body)

\* str(json_data) of a scalar                         transformer.py:50
str(v) ==
    CASE v.type = "str"  -> v.s
      [] v.type = "int"  -> ToString(v.n)
      [] v.type = "bool" -> IF v.b THEN "True" ELSE "False"
      [] OTHER           -> "None"

\* json_to_xml_elements                               transformer.py:39-50
\* The function mutates parent_element; here it returns the element as
\* the call leaves it.
RECURSIVE json_to_xml_elements(_, _)
RECURSIVE RenderFrom(_, _, _)
json_to_xml_elements(parent_element, json_data) ==
    IF json_data.type \in {"dict", "list"}
    THEN RenderFrom(parent_element, json_data, 1)
    ELSE [parent_element EXCEPT !.text = <<str(json_data)>>]

\* variant: the keys of a nested object are hoisted into the parent element
RECURSIVE RenderFromUnnested(_, _, _)
RenderFromUnnested(parent_element, json_data, i) ==
    IF i > Len(json_data.items) THEN parent_element
    ELSE IF json_data.type = "dict"
    THEN LET key   == json_data.items[i].key
             value == json_data.items[i].value
         IN  IF value.type = "dict"
             THEN RenderFromUnnested(RenderFromUnnested(parent_element, value, 1),
                                     json_data, i + 1)
             ELSE RenderFromUnnested(
                      AppendChild(parent_element,
                                  json_to_xml_elements(Element(key, {}), value)),
                      json_data, i + 1)
    ELSE RenderFromUnnested(json_to_xml_elements(parent_element, json_data.items[i]),
                            json_data, i + 1)

\* the two for loops, from the i-th item on
RenderFrom(parent_element, json_data, i) ==
    IF i > Len(json_data.items) THEN parent_element
    ELSE IF json_data.type = "dict"
    THEN LET key   == json_data.items[i].key
             value == json_data.items[i].value
             child == json_to_xml_elements(Element(key, {}), value)
         IN  RenderFrom(AppendChild(parent_element, child), json_data, i + 1)
    ELSE RenderFrom(json_to_xml_elements(parent_element, json_data.items[i]),
                    json_data, i + 1)

\* body.get(key) on a dict: the value, or None
get(d, key) ==
    IF \E i \in 1..Len(d.items) : d.items[i].key = key
    THEN d.items[CHOOSE i \in 1..Len(d.items) : d.items[i].key = key].value
    ELSE JNull

\* the route test with its final else taken as the customer branch
RouteMappingDefaultCustomer(path) ==
    IF path = "/v1/underwriting/submit"
    THEN [found |-> TRUE, operation_name |-> "SubmitApplication",
          wrappers |-> <<[field |-> "customer", wrapper |-> "Applicant"],
                         [field |-> "address", wrapper |-> "Address"],
                         [field |-> "demographics", wrapper |-> "Demographics"],
                         [field |-> "employment", wrapper |-> "Employment"]>>]
    ELSE [found |-> TRUE, operation_name |-> "SaveCustomerInfo",
          wrappers |-> <<[field |-> "customer", wrapper |-> "Customer"],
                         [field |-> "address", wrapper |-> "Address"],
                         [field |-> "demographics", wrapper |-> "Demographics"],
                         [field |-> "employment", wrapper |-> "Employment"]>>]

\* variant: the two branches carry each other's operation and wrapper
RouteMappingSwapped(path) ==
    IF path = "/v1/underwriting/submit"
    THEN [found |-> TRUE, operation_name |-> "SaveCustomerInfo",
          wrappers |-> <<[field |-> "customer", wrapper |-> "Customer"],
                         [field |-> "address", wrapper |-> "Address"],
                         [field |-> "demographics", wrapper |-> "Demographics"],
                         [field |-> "employment", wrapper |-> "Employment"]>>]
    ELSE IF path = "/v1/customer"
    THEN [found |-> TRUE, operation_name |-> "SubmitApplication",
          wrappers |-> <<[field |-> "customer", wrapper |-> "Applicant"],
                         [field |-> "address", wrapper |-> "Address"],
                         [field |-> "demographics", wrapper |-> "Demographics"],
                         [field |-> "employment", wrapper |-> "Employment"]>>]
    ELSE [found |-> FALSE, operation_name |-> "", wrappers |-> <<>>]

\* The two branches of the route test, as the table they spell out:
\* operation name and (inbound field, wrapper element) pairs in order.
\*                                                     transformer.py:75-92
RouteMapping(path) ==
    IF path = "/v1/customer"
    THEN [found |-> TRUE, operation_name |-> "SaveCustomerInfo",
          wrappers |-> <<[field |-> "customer", wrapper |-> "Customer"],
                         [field |-> "address", wrapper |-> "Address"],
                         [field |-> "demographics", wrapper |-> "Demographics"],
                         [field |-> "employment", wrapper |-> "Employment"]>>]
    ELSE IF path = "/v1/underwriting/submit"
    THEN [found |-> TRUE, operation_name |-> "SubmitApplication",
          wrappers |-> <<[field |-> "customer", wrapper |-> "Applicant"],
                         [field |-> "address", wrapper |-> "Address"],
                         [field |-> "demographics", wrapper |-> "Demographics"],
                         [field |-> "employment", wrapper |-> "Employment"]>>]
    ELSE [found |-> FALSE, operation_name |-> "", wrappers |-> <<>>]

\* soap_body_content after the four json_to_xml_elements calls of a branch
\* (body is a dict)                                    transformer.py:78-90
RECURSIVE BuildBody(_, _, _, _)
BuildBody(soap_body_content, wrappers, body, i) ==
    IF i > Len(wrappers) THEN soap_body_content
    ELSE BuildBody(
            AppendChild(soap_body_content,
                json_to_xml_elements(Element(wrappers[i].wrapper, {}),
                                     get(body, wrappers[i].field))),
            wrappers, body, i + 1)

(***************************************************************************)
(* transformer.py: handler                                                 *)
(***************************************************************************)
NoResponse == [statusCode |-> 0, body |-> <<>>]

\* the handler returns at source line `line`
TReturn(line, resp, flt) ==
    /\ t_pc' = "done"
    /\ t_line' = line
    /\ response' = resp
    /\ t_fault' = flt

\* except Exception as e: 500                          transformer.py:117-119
Return500(exc) ==
    TReturn(119, [statusCode |-> 500,
                  body |-> <<"Internal Server Error: ", exc>>], exc)

\* variant: the generic handler catches the transport failure first
Return502AsInternalError(exc) ==
    TReturn(119, [statusCode |-> 500,
                  body |-> <<"Internal Server Error: ", exc>>], exc)

\* variant: a failed dispatch is tried again
Return502Retrying(exc) ==
    /\ t_pc' = "post"
    /\ UNCHANGED <<t_line, t_fault, response>>

\* except requests.exceptions.RequestException as e: 502   transformer.py:114-116
Return502(exc) ==
    TReturn(116, [statusCode |-> 502,
                  body |-> <<"Bad Gateway: Could not connect to backend service. ",
                             exc>>], exc)

\* a new translation request arrives
TInvoke(e) ==
    /\ t_pc \in {"idle", "done"}
    /\ t_pc' = "handle"
    /\ t_event' = e
    /\ soap_request' = NoElement
    /\ backend' = NoBackend
    /\ backend_calls' = 0
    /\ t_line' = 0
    /\ t_fault' = "none"
    /\ response' = NoResponse
    /\ UNCHANGED notXformVars

\* event.get('requestContext', {}).get('authorizer', {}).get(name)
\*                                                     transformer.py:60-62
ContextEntry(e, name) ==
    IF e.requestContext.present /\ e.requestContext.has_authorizer
    THEN IF name = "username" THEN e.requestContext.username
         ELSE e.requestContext.password
    ELSE [present |-> FALSE, value |-> ""]

\* `not x` for x = auth_context.get(name): None or the empty string
Falsy(entry) == ~entry.present \/ entry.value = ""

\* the identity test on the username alone
IdentityMissingUsernameOnly(e) == Falsy(ContextEntry(e, "username"))

\* if not username or not password                     transformer.py:63
IdentityMissing(e) ==
    Falsy(ContextEntry(e, "username")) \/ Falsy(ContextEntry(e, "password"))

\* json.loads(event.get('body', '{}'))                 transformer.py:68
json_loads_body(e) ==
    CASE e.body.kind = "absent" -> [exc |-> "none", value |-> JDict(<<>>)]
      [] e.body.kind = "null"   -> [exc |-> "TypeError", value |-> JNull]
      [] OTHER -> IF e.body.text.ok
                  THEN [exc |-> "none", value |-> e.body.text.value]
                  ELSE [exc |-> "JSONDecodeError", value |-> JNull]

\* event.get('path', '')                               transformer.py:72
PathOf(e) == IF e.path.present THEN e.path.value ELSE ""

\* variant: the route is looked up before the identity and the body are
\* examined
BuildRequestRouteFirst ==
    /\ t_pc = "handle"
    /\ LET parsed  == json_loads_body(t_event)
           body    == parsed.value
           path    == PathOf(t_event)
           mapping == RouteMapping(path)
       IN
       IF ~mapping.found
       THEN /\ TReturn(92, [statusCode |-> 404,
                            body |-> <<"Endpoint ", path, " not found.">>],
                       "none")
            /\ UNCHANGED soap_request
       ELSE IF IdentityMissing(t_event)
       THEN /\ TReturn(64, [statusCode |-> 403,
                            body |-> <<"Forbidden: No identity context found.">>],
                       "none")
            /\ UNCHANGED soap_request
       ELSE IF parsed.exc = "JSONDecodeError"
       THEN /\ TReturn(70, [statusCode |-> 400,
                            body |-> <<"Invalid JSON in request body.">>],
                       "JSONDecodeError")
            /\ UNCHANGED soap_request
       ELSE IF parsed.exc # "none"
       THEN Return500(parsed.exc) /\ UNCHANGED soap_request
       ELSE IF body.type # "dict"
       THEN Return500("AttributeError") /\ UNCHANGED soap_request
       ELSE /\ soap_request' =
                 create_soap_envelope(
                     BuildBody(Element(mapping.operation_name, {}),
                               mapping.wrappers, body, 1),
                     build_wsse_header(ContextEntry(t_event, "username").value,
                                       ContextEntry(t_event, "password").value))
            /\ t_pc' = "post"
            /\ UNCHANGED <<t_line, t_fault, response>>
    /\ UNCHANGED <<t_event, backend, backend_calls>>
    /\ UNCHANGED notXformVars

\* lines 58-99: identity, body, route, envelope
BuildRequest ==
    /\ t_pc = "handle"
    /\ LET parsed  == json_loads_body(t_event)
           body    == parsed.value
           path    == PathOf(t_event)
           mapping == RouteMapping(path)
       IN
       IF IdentityMissing(t_event)
       THEN /\ TReturn(64, [statusCode |-> 403,
                            body |-> <<"Forbidden: No identity context found.">>],
                       "none")
            /\ UNCHANGED soap_request
       ELSE IF parsed.exc = "JSONDecodeError"
       THEN /\ TReturn(70, [statusCode |-> 400,
                            body |-> <<"Invalid JSON in request body.">>],
                       "JSONDecodeError")
            /\ UNCHANGED soap_request
       ELSE IF parsed.exc # "none"
       THEN Return500(parsed.exc) /\ UNCHANGED soap_request
       ELSE IF ~mapping.found
       THEN /\ TReturn(92, [statusCode |-> 404,
                            body |-> <<"Endpoint ", path, " not found.">>],
                       "none")
            /\ UNCHANGED soap_request
       ELSE IF body.type # "dict"
       THEN \* body.get raises AttributeError
            Return500("AttributeError") /\ UNCHANGED soap_request
       ELSE /\ soap_request' =
                 create_soap_envelope(
                     BuildBody(Element(mapping.operation_name, {}),
                               mapping.wrappers, body, 1),
                     build_wsse_header(ContextEntry(t_event, "username").value,
                                       ContextEntry(t_event, "password").value))
            /\ t_pc' = "post"
            /\ UNCHANGED <<t_line, t_fault, response>>
    /\ UNCHANGED <<t_event, backend, backend_calls>>
    /\ UNCHANGED notXformVars

\* response.raise_for_status(): HTTPError for 4xx and 5xx   transformer.py:105
RaisesForStatus(status_code) == status_code >= 400 /\ status_code < 600

\* lines 101-116: requests.post, raise_for_status, the relayed response
PostToBackend ==
    /\ t_pc = "post"
    /\ backend_calls' = backend_calls + 1
    /\ \/ \E x \in TransportErrors, sent \in BackendTexts \cup {""} :
            \* the call failed in transport; `sent` is what the backend had
            \* put on the wire before the failure, which requests discards
            /\ backend' = [kind |-> "error", status_code |-> 0, text |-> sent,
                           exc |-> x]
            /\ Return502(x)
       \/ \E sc \in BackendStatuses, txt \in BackendTexts :
            /\ backend' = [kind |-> "response", status_code |-> sc,
                           text |-> txt, exc |-> ""]
            /\ IF RaisesForStatus(sc)
               THEN Return502("HTTPError")
               ELSE TReturn(108, [statusCode |-> sc,
                                  headers |-> {<<"Content-Type", "application/xml">>},
                                  body |-> <<txt>>], "none")
    /\ UNCHANGED <<t_event, soap_request>>
    /\ UNCHANGED notXformVars

XformIdle ==
    /\ t_pc = "idle"
    /\ t_event = NoXformEvent
    /\ soap_request = NoElement
    /\ backend = NoBackend
    /\ backend_calls = 0
    /\ t_line = 0
    /\ t_fault = "none"
    /\ response = NoResponse

(***************************************************************************)
(* authorizer.py: get_ldap_secret called by concurrent invocations.  The    *)
(* module global ldap_secret is the only state the invocations share; each *)
(* thread runs get_ldap_secret line by line.                               *)
(***************************************************************************)
NumThreads == 2      \* invocations running in the process at a time

Threads == 1..NumThreads

notCacheVars == <<handlerVars, xformVars, rewriteVars>>

\* the versions of the secret the store holds over the life of the
\* process: complete configurations, differing in their optional keys
SecretVersions ==
    {s \in SecretValues : s.kind = "dict" /\ RequiredKeys \subseteq s.keys /\ s.port_ok}

\* handler line 38 calls get_ldap_secret in thread t
CallGetSecret(t) ==
    /\ c_pc[t] \in {"idle", "done"}
    /\ c_pc' = [c_pc EXCEPT ![t] = "check"]
    /\ c_warm' = [c_warm EXCEPT ![t] = SecretTruthy(ldap_secret)]
    /\ c_resp' = [c_resp EXCEPT ![t] = NoSecret]
    /\ UNCHANGED ldap_secret
    /\ UNCHANGED notCacheVars

\* if ldap_secret:                                    authorizer.py:22
CheckCache(t) ==
    /\ c_pc[t] = "check"
    /\ c_pc' = [c_pc EXCEPT ![t] = IF SecretTruthy(ldap_secret)
                                   THEN "hit" ELSE "fetch"]
    /\ UNCHANGED <<ldap_secret, c_resp, c_warm>>
    /\ UNCHANGED notCacheVars

\* return ldap_secret                                 authorizer.py:23
ReturnCached(t) ==
    /\ c_pc[t] = "hit"
    /\ c_pc' = [c_pc EXCEPT ![t] = "done"]
    /\ UNCHANGED <<ldap_secret, c_resp, c_warm>>
    /\ UNCHANGED notCacheVars

\* secrets_client.get_secret_value(...) and json.loads(...) of its
\* SecretString: the right-hand side of line 27       authorizer.py:26-27
\* The secret store answers with the version it holds at that moment.
FetchSecret(t) ==
    /\ c_pc[t] = "fetch"
    /\ \E s \in SecretVersions :
          c_resp' = [c_resp EXCEPT ![t] = s]
    /\ c_pc' = [c_pc EXCEPT ![t] = "store"]
    /\ UNCHANGED <<ldap_secret, c_warm>>
    /\ UNCHANGED notCacheVars

\* the fetch or the parse raises; line 31 re-raises   authorizer.py:29-31
FetchRaises(t) ==
    /\ c_pc[t] = "fetch"
    /\ c_pc' = [c_pc EXCEPT ![t] = "done"]
    /\ UNCHANGED <<ldap_secret, c_resp, c_warm>>
    /\ UNCHANGED notCacheVars

\* ldap_secret = <the parsed secret>                  authorizer.py:27
StoreSecret(t) ==
    /\ c_pc[t] = "store"
    /\ ldap_secret' = c_resp[t]
    /\ c_pc' = [c_pc EXCEPT ![t] = "return"]
    /\ UNCHANGED <<c_resp, c_warm>>
    /\ UNCHANGED notCacheVars

\* return ldap_secret                                 authorizer.py:28
ReturnStored(t) ==
    /\ c_pc[t] = "return"
    /\ c_pc' = [c_pc EXCEPT ![t] = "done"]
    /\ c_resp' = [c_resp EXCEPT ![t] = NoSecret]
    /\ UNCHANGED <<ldap_secret, c_warm>>
    /\ UNCHANGED notCacheVars

CacheInit ==
    /\ c_pc = [t \in Threads |-> "idle"]
    /\ c_resp = [t \in Threads |-> NoSecret]
    /\ c_warm = [t \in Threads |-> FALSE]

(***************************************************************************)
(* rewrite_handler.py: handler                                             *)
(***************************************************************************)
HYPHEN == 45
NEWLINE == 10

\* "/underwriting/quote/"                              rewrite_handler.py:15
QuotePrefix ==
    <<47,117,110,100,101,114,119,114,105,116,105,110,103,47,113,117,111,116,101,47>>

\* the character class [A-Za-z0-9\-]
IsQuoteIdChar(c) ==
    \/ c \in 65..90
    \/ c \in 97..122
    \/ c \in 48..57
    \/ c = HYPHEN

\* re.match(r'^/underwriting/quote/([A-Za-z0-9\-]+)$', uri) is not None;
\* '$' matches at the end of the string and before a newline that ends it
\*                                                     rewrite_handler.py:15
re_match(uri) ==
    LET n    == Len(uri)
        last == IF n > 0 /\ uri[n] = NEWLINE THEN n - 1 ELSE n
    IN  /\ startswith(uri, QuotePrefix)
        /\ last > Len(QuotePrefix)
        /\ \A i \in (Len(QuotePrefix) + 1)..last : IsQuoteIdChar(uri[i])

\* variant: the method is not looked at
match_any_method(request) == re_match(request.uri)

\* if match and request['method'] == 'POST'           rewrite_handler.py:17
match_and_post(request) == re_match(request.uri) /\ request.method = "POST"

\* request['headers']['soapaction'] = [{'key': ..., 'value': ...}]
\*                                                     rewrite_handler.py:22-27
SoapActionHeader == <<[key |-> "SOAPAction", value |-> "\"insurance.com\""]>>

SetHeader(headers, name, value) ==
    [n \in DOMAIN headers \cup {name} |->
        IF n = name THEN value ELSE headers[n]]

\* The request URIs the model presents (code points), with the text each
\* one stands for.
TestUris == {
    <<47,117,110,100,101,114,119,114,105,116,105,110,103,47,113,117,111,116,101,47,97,98,99,45,49,50,51>>,  \* /underwriting/quote/abc-123
    <<47,117,110,100,101,114,119,114,105,116,105,110,103,47,113,117,111,116,101,47,81,49>>,  \* /underwriting/quote/Q1
    <<47,117,110,100,101,114,119,114,105,116,105,110,103,47,113,117,111,116,101,47,45>>,     \* /underwriting/quote/-
    <<47,117,110,100,101,114,119,114,105,116,105,110,103,47,113,117,111,116,101,47>>,        \* /underwriting/quote/
    <<47,117,110,100,101,114,119,114,105,116,105,110,103,47,113,117,111,116,101,47,97,47,98>>,  \* /underwriting/quote/a/b
    <<47,117,110,100,101,114,119,114,105,116,105,110,103,47,113,117,111,116,101,47,97,95,98>>,  \* /underwriting/quote/a_b
    <<47,117,110,100,101,114,119,114,105,116,105,110,103,47,113,117,111,116,101>>,           \* /underwriting/quote
    <<47,118,49,47,117,110,100,101,114,119,114,105,116,105,110,103,47,113,117,111,116,101,47,97,98,99>>,  \* /v1/underwriting/quote/abc
    <<47,85,110,100,101,114,119,114,105,116,105,110,103,47,113,117,111,116,101,47,97,98,99>>,  \* /Underwriting/quote/abc
    <<47,117,110,100,101,114,119,114,105,116,105,110,103,47,113,117,111,116,101,47,97,98,99,47>>,  \* /underwriting/quote/abc/
    <<47>>                                                                                    \* /
}

\* request['method'] as CloudFront delivers it, and two that differ from
\* 'POST' in case or name
TestMethods == {"POST", "GET", "PUT", "post"}

\* request['headers']: lower-case header name -> list of key/value pairs
TestHeaderMaps == {
    <<>>,
    [n \in {"host"} |-> <<[key |-> "Host", value |-> "d111.cloudfront.net"]>>],
    [n \in {"host", "soapaction"} |->
        IF n = "host"
        THEN <<[key |-> "Host", value |-> "d111.cloudfront.net"]>>
        ELSE <<[key |-> "SOAPAction", value |-> "\"urn:other\""]>>],
    [n \in {"content-type", "x-forwarded-for"} |->
        IF n = "content-type"
        THEN <<[key |-> "Content-Type", value |-> "text/xml"]>>
        ELSE <<[key |-> "X-Forwarded-For", value |-> "10.0.0.1"],
               [key |-> "X-Forwarded-For", value |-> "10.0.0.2"]>>]
}

\* event['Records'][0]['cf']['request']
RewriteRequests ==
    {[uri |-> u, method |-> m, headers |-> h]
        : u \in TestUris, m \in TestMethods, h \in TestHeaderMaps}

NoRequest == [uri |-> <<>>, method |-> "", headers |-> <<>>]

\* a viewer request arrives at the edge function   rewrite_handler.py:8-9
RInvoke(req) ==
    /\ r_pc \in {"idle", "done"}
    /\ r_pc' = "handle"
    /\ r_request' = req
    /\ r_result' = NoRequest
    /\ UNCHANGED <<authVars, xformVars, cacheVars>>

\* the match, the header assignment and the return   rewrite_handler.py:15-35
Rewrite ==
    /\ r_pc = "handle"
    /\ r_pc' = "done"
    /\ r_result' =
          IF match_and_post(r_request)
          THEN [r_request EXCEPT
                   !.headers = SetHeader(@, "soapaction", SoapActionHeader)]
          ELSE r_request
    /\ UNCHANGED r_request
    /\ UNCHANGED <<authVars, xformVars, cacheVars>>

RewriteInit ==
    /\ r_pc = "idle"
    /\ r_request = NoRequest
    /\ r_result = NoRequest

Init == AuthInit /\ XformIdle /\ CacheInit /\ RewriteInit

AuthNext ==
    \/ \E e \in AuthEvents : Invoke(e)
    \/ get_ldap_secret
    \/ ExtractCredential
    \/ BindAdmin
    \/ SearchUser
    \/ BindUser
    \/ BindAdmin2
    \/ SearchGroup

SpecAuth == Init /\ [][AuthNext]_vars

XformNext ==
    \/ \E e \in XformEvents : TInvoke(e)
    \/ BuildRequest
    \/ PostToBackend

SpecXform == Init /\ [][XformNext]_vars

CacheNext ==
    \/ \E t \in Threads : CallGetSecret(t)
    \/ \E t \in Threads : CheckCache(t)
    \/ \E t \in Threads : ReturnCached(t)
    \/ \E t \in Threads : FetchSecret(t)
    \/ \E t \in Threads : FetchRaises(t)
    \/ \E t \in Threads : StoreSecret(t)
    \/ \E t \in Threads : ReturnStored(t)

SpecCache == Init /\ [][CacheNext]_vars

RewriteNext ==
    \/ \E req \in RewriteRequests : RInvoke(req)
    \/ Rewrite

SpecRewrite == Init /\ [][RewriteNext]_vars

(***************************************************************************)
(* Properties of the authorizer                                            *)
(***************************************************************************)
IsDecision(r) == r.kind = "return"
Effect(policy) == policy.policyDocument.Statement[1].Effect
HasContext(policy) == "context" \in DOMAIN policy
Returned(eff) == pc = "done" /\ IsDecision(result) /\ Effect(result.policy) = eff

\* Encoding side of a credential presentation, written independently of
\* the decoders above: UTF-8 bytes of a code point below U+0800 ...
Utf8Bytes(c) == IF c < 128 THEN <<c>> ELSE <<192 + (c \div 64), 128 + (c % 64)>>

RECURSIVE utf8_encode(_)
utf8_encode(s) ==
    IF s = <<>> THEN <<>> ELSE Utf8Bytes(Head(s)) \o utf8_encode(Tail(s))

\* ... the base64 alphabet ...
B64Char(v) ==
    IF v < 26 THEN 65 + v
    ELSE IF v < 52 THEN 97 + (v - 26)
    ELSE IF v < 62 THEN 48 + (v - 52)
    ELSE IF v = 62 THEN 43
    ELSE 47

\* ... and base64 with padding of a byte string.
RECURSIVE b64encode(_)
b64encode(b) ==
    IF Len(b) = 0 THEN <<>>
    ELSE IF Len(b) = 1
    THEN <<B64Char(b[1] \div 4), B64Char((b[1] % 4) * 16), PAD, PAD>>
    ELSE IF Len(b) = 2
    THEN <<B64Char(b[1] \div 4),
           B64Char((b[1] % 4) * 16 + (b[2] \div 16)),
           B64Char((b[2] % 16) * 4), PAD>>
    ELSE <<B64Char(b[1] \div 4),
           B64Char((b[1] % 4) * 16 + (b[2] \div 16)),
           B64Char((b[2] % 16) * 4 + (b[3] \div 64)),
           B64Char(b[3] % 64)>> \o b64encode(SubSeq(b, 4, Len(b)))

\* "Basic " + base64(username:password)
Presentation(u, p) ==
    <<66, 97, 115, 105, 99, 32>> \o b64encode(utf8_encode(u \o <<COLON>> \o p))

\* credentials whose presentation is among TestHeaders:
\* al:pw, a:(b:c), (empty):pw, al:(empty), U+00E9:x
TestCredentials ==
    {[username |-> <<97, 108>>, password |-> <<112, 119>>],
     [username |-> <<97>>,      password |-> <<98, 58, 99>>],
     [username |-> <<>>,        password |-> <<112, 119>>],
     [username |-> <<97, 108>>, password |-> <<>>],
     [username |-> <<233>>,     password |-> <<120>>]}

Presents(c) ==
    /\ event.headers.kind = "dict"
    /\ event.headers.has_auth
    /\ event.headers.auth = Presentation(c.username, c.password)

\* C1: every invocation of the authorizer handler ends by returning an
\* AuthorizationDecision to its caller; no exception leaves the handler,
\* whatever the headers, the methodArn (present or missing) and the faults.
C1_HandlerTotal == pc = "done" => IsDecision(result)

\* C2: for an event carrying a methodArn and the presentation
\* "Basic " + base64(username:password) of a credential, when the DN search
\* returned an entry, the bind as that DN succeeded and the membership
\* search returned an entry, the handler returns Allow with principal =
\* username and a context holding exactly that username and password.
C2_AllowForMember ==
    \A c \in TestCredentials :
        ( /\ pc = "done"
          /\ event.methodArn.present
          /\ Presents(c)
          /\ entries # <<>>
          /\ user_bound
          /\ group_entries # <<>> )
        => /\ IsDecision(result)
           /\ Effect(result.policy) = "Allow"
           /\ result.policy.policyDocument.Statement[1].Resource
                  = event.methodArn.value
           /\ result.policy.principalId = c.username
           /\ HasContext(result.policy)
           /\ result.policy.context.username = c.username
           /\ result.policy.context.password = c.password

\* C2 witness: an Allow for the credential a:(b:c), whose password holds a colon
C2_Witness ==
    /\ Returned("Allow")
    /\ Presents([username |-> <<97>>, password |-> <<98, 58, 99>>])
    /\ user_bound
    /\ group_entries # <<>>

\* The three denials C3 is about: the DN search returned nothing (line 71),
\* the bind as the user was refused (line 76), the membership search
\* returned nothing (line 85).
DeniedAfterExtraction ==
    /\ pc = "done"
    /\ IsDecision(result)
    /\ extracted
    /\ \/ ret_line = 71
       \/ fault = "bind_failed"
       \/ ret_line = 85

\* C3: a denial after the credential was extracted (DN not found, bind
\* refused, not a member) names the extracted username as principal and
\* carries no context.
C3_DenyNamesUser ==
    DeniedAfterExtraction
    => /\ Effect(result.policy) = "Deny"
       /\ result.policy.principalId = username
       /\ ~HasContext(result.policy)

\* Headers among TestHeaders from which no credential can be read: wrong or
\* missing scheme, empty payload, no colon, bad base64, bad UTF-8.
UnparseableHeaders == {
    <<66,101,97,114,101,114,32,89,87,119,54,99,72,99,61>>,  \* "Bearer YWw6cHc="
    <<89,87,119,54,99,72,99,61>>,                           \* "YWw6cHc="
    <<66,97,115,105,99>>,                                   \* "Basic"
    <<>>,                                                   \* ""
    <<66,97,115,105,99,32>>,                                \* "Basic "
    <<66,97,115,105,99,32,32,89,87,119,54,99,72,99,61>>,    \* "Basic  YWw6cHc="
    <<66,97,115,105,99,32,89,87,120,119,100,119,61,61>>,    \* "Basic YWxwdw=="
    <<66,97,115,105,99,32,89,87,119,54,99,72>>,             \* "Basic YWw6cH"
    <<66,97,115,105,99,32,89>>,                             \* "Basic Y"
    <<66,97,115,105,99,32,47,119,61,61>>                    \* "Basic /w=="
}

Unparseable(e) ==
    \/ e.headers.kind # "dict"
    \/ ~e.headers.has_auth
    \/ e.headers.auth \in UnparseableHeaders

\* "basic YWw6cHc=" and "BASIC YTpiOmM=": the scheme in another case
LowerCaseHeader == <<98,97,115,105,99,32,89,87,119,54,99,72,99,61>>
UpperCaseHeader == <<66,65,83,73,67,32,89,84,112,105,79,109,77,61>>

PastExtraction == pc \in {"bind_admin", "search_user", "bind_user",
                          "bind_admin2", "search_group"}

\* C4: an event (carrying a methodArn) whose credential header is absent or
\* unparseable gets Deny with the placeholder principal and no context;
\* the scheme is matched in any case, and the payload is split at its first
\* colon only.
C4_UnparseableDenied ==
    /\ (pc = "done" /\ event.methodArn.present /\ Unparseable(event))
       => /\ IsDecision(result)
          /\ Effect(result.policy) = "Deny"
          /\ result.policy.principalId = PlaceholderPrincipal
          /\ ~HasContext(result.policy)
          /\ ~extracted
    /\ (event.headers.has_auth
        /\ event.headers.auth \in {LowerCaseHeader, UpperCaseHeader})
       => /\ ret_line # 47
          /\ fault \notin {"b64", "utf8", "nocolon"}
    /\ (PastExtraction /\ event.headers.auth = LowerCaseHeader)
       => extracted /\ username = <<97, 108>> /\ password = <<112, 119>>
    /\ (PastExtraction /\ event.headers.auth = UpperCaseHeader)
       => extracted /\ username = <<97>> /\ password = <<98, 58, 99>>

\* C4 witness: a header without a colon in its payload was denied by the
\* exception path
C4_Witness ==
    /\ Returned("Deny")
    /\ event.headers.has_auth
    /\ event.headers.auth = <<66,97,115,105,99,32,89,87,120,119,100,119,61,61>>
    /\ fault = "nocolon"

\* the membership search ran and returned (it did not raise)
GroupSearchAnswered ==
    /\ Len(ops) = 5
    /\ ops[5] = "search_group"
    /\ fault # "group_search"

\* C5: when the bind as the user succeeded and the membership search
\* returned no entry, the handler (given a methodArn) returns Deny; and
\* Allow is never returned unless that search returned an entry.
C5_NonMemberDenied ==
    /\ ( /\ pc = "done"
         /\ event.methodArn.present
         /\ user_bound
         /\ GroupSearchAnswered
         /\ group_entries = <<>> )
       => IsDecision(result) /\ Effect(result.policy) = "Deny"
    /\ Returned("Allow") => (GroupSearchAnswered /\ group_entries # <<>>)

\* C5 witness: the search answered True with no entry and the user was denied
C5_Witness ==
    /\ Returned("Deny")
    /\ user_bound
    /\ GroupSearchAnswered
    /\ is_member
    /\ group_entries = <<>>

\* C6: a decision carries a context only when its effect is Allow.
C6_ContextOnlyOnAllow ==
    (IsDecision(result) /\ HasContext(result.policy))
    => Effect(result.policy) = "Allow"

\* C6 witness: a Deny returned after the credential was extracted
C6_Witness ==
    /\ Returned("Deny")
    /\ extracted
    /\ ~HasContext(result.policy)

(***************************************************************************)
(* Properties of the transformer                                           *)
(***************************************************************************)
TDone == t_pc = "done"

\* the request carries a non-empty username and a non-empty password
HasIdentity(e) ==
    /\ e.requestContext.present
    /\ e.requestContext.has_authorizer
    /\ e.requestContext.username.present
    /\ e.requestContext.username.value # ""
    /\ e.requestContext.password.present
    /\ e.requestContext.password.value # ""

SupportedRoutes == {"/v1/customer", "/v1/underwriting/submit"}

UnknownRoute(e) == ~e.path.present \/ e.path.value \notin SupportedRoutes

\* the body is JSON text (the handler reads an absent body as "{}")
BodyParses(e) ==
    \/ e.body.kind = "absent"
    \/ (e.body.kind = "str" /\ e.body.text.ok)

\* the body is JSON text for an object
BodyIsObject(e) ==
    \/ e.body.kind = "absent"
    \/ (e.body.kind = "str" /\ e.body.text.ok /\ e.body.text.value.type = "dict")

\* C7: whatever status code the backend answers with (2xx, 4xx, 5xx), the
\* handler returns that status code and that body to its caller.
C7_BackendRelayed ==
    (TDone /\ backend.kind = "response")
    => /\ response.statusCode = backend.status_code
       /\ response.body = <<backend.text>>

\* C8 as stated: a request whose path is not a supported route ends in 404,
\* the directory and the backend not invoked.
C8_UnknownRouteNotFound ==
    (TDone /\ UnknownRoute(t_event))
    => /\ response.statusCode = 404
       /\ backend_calls = 0
       /\ ops = <<>>

\* C8 amended: for a request whose path is not a supported route, neither
\* the directory nor the backend is ever invoked, and the outcome is 404
\* when the request carries an identity and its body parses as JSON (the
\* identity and body checks come first and decide otherwise).
C8_UnknownRouteAmended ==
    UnknownRoute(t_event)
    => /\ backend_calls = 0
       /\ t_pc # "post"
       /\ ops = <<>>
       /\ (TDone /\ HasIdentity(t_event) /\ BodyParses(t_event))
          => (response.statusCode = 404 /\ t_line = 92)

\* C8 witness: 404 for the path "/v1/customer/" (a supported route plus a slash)
C8_Witness ==
    /\ TDone
    /\ t_event.path.value = "/v1/customer/"
    /\ HasIdentity(t_event)
    /\ response.statusCode = 404
    /\ backend_calls = 0

\* C9: a request without a non-empty username and a non-empty password gets
\* 403, and the backend is dispatched only for requests carrying both.
C9_IdentityRequired ==
    /\ (TDone /\ ~HasIdentity(t_event))
       => (response.statusCode = 403 /\ backend_calls = 0)
    /\ (t_pc = "post" \/ backend_calls > 0) => HasIdentity(t_event)

\* C9 witness: 403 for a request with a username and an empty password, on
\* a supported route with a well-formed body
C9_Witness ==
    /\ TDone
    /\ response.statusCode = 403
    /\ t_event.requestContext.username.value = "al"
    /\ t_event.requestContext.password.present
    /\ t_event.requestContext.password.value = ""
    /\ ~UnknownRoute(t_event)
    /\ BodyIsObject(t_event)

\* C10: every fault becomes a status response: missing identity 403; a body
\* that is malformed, not JSON, null or not an object 400; unknown route
\* 404; backend unreachable 502; 500 only for a fault of none of these
\* classes.  (The claim's absent body, which line 68 reads as "{}", is
\* counted here with the well-formed bodies.)
C10_FaultStatusMapping ==
    TDone =>
       /\ response.statusCode # 0
       /\ ~HasIdentity(t_event) => response.statusCode = 403
       /\ (HasIdentity(t_event) /\ ~BodyIsObject(t_event))
          => response.statusCode = 400
       /\ (HasIdentity(t_event) /\ BodyIsObject(t_event) /\ UnknownRoute(t_event))
          => response.statusCode = 404
       /\ backend.kind = "error" => response.statusCode = 502
       /\ response.statusCode = 500
          => (HasIdentity(t_event) /\ BodyIsObject(t_event)
              /\ ~UnknownRoute(t_event) /\ backend.kind # "error")

\* what the backend put on the wire during this request, if anything
BackendSent == IF backend.text = "" THEN {} ELSE {backend.text}

\* the parts of the returned body
BodyParts == {response.body[i] : i \in DOMAIN response.body}

\* C11: when the backend call times out or fails at the network level the
\* handler returns 502, and the body of that response holds the fixed
\* "Bad Gateway" text and the name of the failure only: nothing the backend
\* sent, and no relayed headers.
C11_UnreachableIsBadGateway ==
    (TDone /\ backend.kind = "error") =>
       /\ response.statusCode = 502
       /\ t_line = 116
       /\ response.body =
            <<"Bad Gateway: Could not connect to backend service. ", backend.exc>>
       /\ backend.exc \in TransportErrors
       /\ BackendSent \cap BodyParts = {}
       /\ BodyParts \cap BackendTexts = {}
       /\ "headers" \notin DOMAIN response

\* C11 witness: a timeout after the backend had started to answer
C11_Witness ==
    /\ TDone
    /\ backend.kind = "error"
    /\ backend.exc = "Timeout"
    /\ backend.text = "<soap:Envelope>ok</soap:Envelope>"
    /\ response.statusCode = 502

\* C16: the backend is dispatched at most once per request, and only after
\* the identity check, the body parse and the route lookup have succeeded;
\* a request that was dispatched ends with the relayed backend response
\* (line 108) or with the backend-unreachable outcome (line 116), nothing
\* else.
C16_SingleDispatch ==
    /\ backend_calls <= 1
    /\ (t_pc = "post" \/ backend_calls = 1) =>
          /\ HasIdentity(t_event)
          /\ BodyParses(t_event)
          /\ ~UnknownRoute(t_event)
          /\ soap_request # NoElement
    /\ (t_pc = "post") => backend_calls = 0
    /\ (TDone /\ backend_calls = 1) =>
          \/ /\ t_line = 108
             /\ backend.kind = "response"
             /\ response.statusCode = backend.status_code
             /\ response.body = <<backend.text>>
          \/ /\ t_line = 116
             /\ response.statusCode = 502
    /\ (TDone /\ backend_calls = 0) => t_line \notin {108, 116}

\* C16 witness: a request dispatched once whose dispatch failed in
\* transport, finished without a second dispatch
C16_Witness ==
    /\ TDone
    /\ backend_calls = 1
    /\ backend.kind = "error"
    /\ backend.exc = "ConnectionError"
    /\ t_line = 116

\* the body is a text that json.loads rejects
BodyMalformed(e) == e.body.kind = "str" /\ ~e.body.text.ok

\* C19: the request faults are tested in the order identity, body parse,
\* route.  A request without an identity gets 403 whatever its body and
\* path; a request with an identity and a malformed body gets 400 whatever
\* its path; 404 is returned only to a request whose identity was present
\* and whose body parsed.
C19_FaultOrder ==
    TDone =>
       /\ ~HasIdentity(t_event)
          => (response.statusCode = 403 /\ t_line = 64)
       /\ (HasIdentity(t_event) /\ BodyMalformed(t_event))
          => (response.statusCode = 400 /\ t_line = 70)
       /\ response.statusCode = 404
          => (HasIdentity(t_event) /\ BodyParses(t_event) /\ UnknownRoute(t_event))

\* C19 witness: 400 for a request with an identity, a malformed body and an
\* unknown route
C19_Witness ==
    /\ TDone
    /\ HasIdentity(t_event)
    /\ BodyMalformed(t_event)
    /\ UnknownRoute(t_event)
    /\ t_event.path.present
    /\ response.statusCode = 400

\* the operation element of the request built: Envelope / Body / first child
OperationElement == soap_request.children[2].children[1]

\* the tags of an element's children, in document order
ChildTags(el) == [i \in DOMAIN el.children |-> el.children[i].tag]

\* the first child of el with the given tag
ChildNamed(el, tag) ==
    el.children[CHOOSE i \in DOMAIN el.children : el.children[i].tag = tag]

HasChild(el, tag) == \E i \in DOMAIN el.children : el.children[i].tag = tag

\* the parsed body of the request in hand (an absent body is "{}")
BodyOf(e) == IF e.body.kind = "str" THEN e.body.text.value ELSE JDict(<<>>)

HasKey(d, key) == \E i \in DOMAIN d.items : d.items[i].key = key

Keys(d) == [i \in DOMAIN d.items |-> d.items[i].key]

InboundFields == {"customer", "address", "demographics", "employment"}

\* the route table as the specification of the service states it
ExpectedOperation(path) ==
    IF path = "/v1/customer" THEN "SaveCustomerInfo" ELSE "SubmitApplication"

ExpectedWrapper(path, field) ==
    CASE field = "customer" ->
             (IF path = "/v1/customer" THEN "Customer" ELSE "Applicant")
      [] field = "address"      -> "Address"
      [] field = "demographics" -> "Demographics"
      [] field = "employment"   -> "Employment"

\* a request has been built for the request in hand
RequestBuilt == soap_request # NoElement

\* C14: a request is built only for a path that is exactly one of the two
\* supported routes; on /v1/customer the operation is SaveCustomerInfo and
\* the customer field is placed under Customer, on /v1/underwriting/submit
\* the operation is SubmitApplication and the customer field is placed
\* under Applicant; address, demographics and employment are placed under
\* Address, Demographics and Employment on both routes.
C14_RouteSelectsMapping ==
    RequestBuilt =>
       LET path == t_event.path.value
           body == BodyOf(t_event)
           op   == OperationElement
       IN  /\ t_event.path.present
           /\ path \in SupportedRoutes
           /\ op.tag = ExpectedOperation(path)
           /\ soap_request.children[2].tag = "soap:Body"
           /\ Len(soap_request.children[2].children) = 1
           /\ \A f \in InboundFields :
                 (HasKey(body, f) /\ get(body, f).type = "dict") =>
                    /\ HasChild(op, ExpectedWrapper(path, f))
                    /\ ChildTags(ChildNamed(op, ExpectedWrapper(path, f)))
                         = Keys(get(body, f))
           /\ path = "/v1/customer"
                => ~HasChild(op, "Applicant")
           /\ path = "/v1/underwriting/submit"
                => ~HasChild(op, "Customer")

\* C14 witness: the underwriting route with a customer and an address: the
\* customer's name is under Applicant and the city under Address
C14_Witness ==
    /\ t_pc = "post"
    /\ t_event.path.value = "/v1/underwriting/submit"
    /\ OperationElement.tag = "SubmitApplication"
    /\ HasChild(OperationElement, "Applicant")
    /\ HasChild(ChildNamed(OperationElement, "Applicant"), "name")
    /\ HasChild(ChildNamed(OperationElement, "Address"), "city")
    /\ ChildNamed(ChildNamed(OperationElement, "Applicant"), "name").text = <<"Jane">>
    /\ ChildNamed(ChildNamed(OperationElement, "Address"), "city").text = <<"Pune">>

\* every text in the subtree of an element
RECURSIVE Texts(_)
Texts(el) ==
    {el.text[i] : i \in DOMAIN el.text}
    \cup UNION {Texts(el.children[i]) : i \in DOMAIN el.children}

\* C13: in a built request a wrapper element exists exactly for the inbound
\* fields the body contains; a field the body does not contain gives no
\* wrapper element and no text in the document.
C13_WrapperIffFieldPresent ==
    RequestBuilt =>
       LET path == t_event.path.value
           body == BodyOf(t_event)
           op   == OperationElement
       IN  /\ \A f \in InboundFields :
                 HasChild(op, ExpectedWrapper(path, f)) <=> HasKey(body, f)
           /\ (\E f \in InboundFields : ~HasKey(body, f))
                 => "None" \notin Texts(op)

\* the string forms of the scalars that are array items of a JSON value, or
\* lie inside one (in_array: the value itself is inside an array)
RECURSIVE ArrayItemTexts(_, _)
ArrayItemTexts(v, in_array) ==
    IF v.type = "dict"
    THEN UNION {ArrayItemTexts(v.items[i].value, in_array) : i \in DOMAIN v.items}
    ELSE IF v.type = "list"
    THEN UNION {ArrayItemTexts(v.items[i], TRUE) : i \in DOMAIN v.items}
    ELSE IF in_array THEN {str(v)} ELSE {}

\* C17: every item of every array in an inbound field appears in the built
\* document under that field's wrapper, flat arrays of scalars included.
C17_ArrayItemsAllRendered ==
    RequestBuilt =>
       LET path == t_event.path.value
           body == BodyOf(t_event)
       IN  \A f \in InboundFields :
              HasKey(body, f) =>
                 ArrayItemTexts(get(body, f), FALSE)
                    \subseteq Texts(ChildNamed(OperationElement,
                                               ExpectedWrapper(path, f)))

\* a JSON value with scalar leaves only: a scalar, or a non-empty object of
\* such values
RECURSIVE ScalarLeavesOnly(_)
ScalarLeavesOnly(v) ==
    CASE v.type = "dict" -> /\ v.items # <<>>
                            /\ \A i \in DOMAIN v.items :
                                  ScalarLeavesOnly(v.items[i].value)
      [] v.type = "list" -> FALSE
      [] OTHER           -> TRUE

\* the nesting depth of a JSON value (a scalar has depth 0)
RECURSIVE JDepth(_)
JDepth(v) ==
    IF v.type = "dict" /\ v.items # <<>>
    THEN 1 + (CHOOSE m \in {JDepth(v.items[i].value) : i \in DOMAIN v.items} :
                 \A n \in {JDepth(v.items[i].value) : i \in DOMAIN v.items} : n <= m)
    ELSE 0

\* the bound of the claim on the depth of the body object
MaxBodyDepth == 3

\* the string form of a JSON scalar as Python's str gives it
StringForm(v) ==
    CASE v.type = "str"  -> v.s
      [] v.type = "int"  -> ToString(v.n)
      [] v.type = "bool" -> (IF v.b THEN "True" ELSE "False")
      [] v.type = "null" -> "None"

\* the key paths of an object, and its (key path, string form) leaves
RECURSIVE KeyPaths(_, _)
KeyPaths(v, prefix) ==
    IF v.type = "dict"
    THEN UNION {{Append(prefix, v.items[i].key)}
                \cup KeyPaths(v.items[i].value, Append(prefix, v.items[i].key))
                : i \in DOMAIN v.items}
    ELSE {}

RECURSIVE LeafPaths(_, _)
LeafPaths(v, prefix) ==
    IF v.type = "dict"
    THEN UNION {LeafPaths(v.items[i].value, Append(prefix, v.items[i].key))
                : i \in DOMAIN v.items}
    ELSE {<<prefix, StringForm(v)>>}

\* the tag paths of the elements below el, their number, and the
\* (tag path, text) pairs of the elements at or below el that carry text
RECURSIVE ElementPaths(_, _)
ElementPaths(el, prefix) ==
    UNION {{Append(prefix, el.children[i].tag)}
           \cup ElementPaths(el.children[i], Append(prefix, el.children[i].tag))
           : i \in DOMAIN el.children}

RECURSIVE SumCounts(_, _)
RECURSIVE ElementCount(_)
SumCounts(children, i) ==
    IF i > Len(children) THEN 0
    ELSE 1 + ElementCount(children[i]) + SumCounts(children, i + 1)

ElementCount(el) == SumCounts(el.children, 1)

RECURSIVE TextPaths(_, _)
TextPaths(el, prefix) ==
    {<<prefix, el.text[i]>> : i \in DOMAIN el.text}
    \cup UNION {TextPaths(el.children[i], Append(prefix, el.children[i].tag))
                : i \in DOMAIN el.children}

\* the inbound field f of the request in hand is an object or scalar of the
\* kind the round-trip property speaks of
RoundTripField(f) ==
    /\ RequestBuilt
    /\ HasKey(BodyOf(t_event), f)
    /\ ScalarLeavesOnly(get(BodyOf(t_event), f))
    /\ JDepth(BodyOf(t_event)) <= MaxBodyDepth

\* C18: for a body object of depth at most 3 whose leaves are scalars, the
\* element tree built under a field's wrapper has exactly one element per
\* key, nested along exactly the object's key paths, each leaf element's
\* text is the string form of its scalar, and there is no other element
\* or text under the wrapper.
C18_KeyPathRoundTrip ==
    /\ \A f \in InboundFields :
          RoundTripField(f) =>
             LET value   == get(BodyOf(t_event), f)
                 wrapper == ChildNamed(OperationElement,
                                       ExpectedWrapper(t_event.path.value, f))
             IN  /\ ElementPaths(wrapper, <<>>) = KeyPaths(value, <<>>)
                 /\ ElementCount(wrapper) = Cardinality(KeyPaths(value, <<>>))
                 /\ TextPaths(wrapper, <<>>) = LeafPaths(value, <<>>)
    \* the same for the whole body object rendered under one element
    /\ (/\ RequestBuilt
        /\ ScalarLeavesOnly(BodyOf(t_event))
        /\ JDepth(BodyOf(t_event)) <= MaxBodyDepth) =>
          LET value   == BodyOf(t_event)
              wrapper == json_to_xml_elements(Element("Request", {}), value)
          IN  /\ ElementPaths(wrapper, <<>>) = KeyPaths(value, <<>>)
              /\ ElementCount(wrapper) = Cardinality(KeyPaths(value, <<>>))
              /\ TextPaths(wrapper, <<>>) = LeafPaths(value, <<>>)

\* C18 witness: a body of depth 3 with a boolean, a number and a null among
\* its leaves, rendered under Demographics
C18_Witness ==
    /\ RoundTripField("demographics")
    /\ JDepth(BodyOf(t_event)) = 3
    /\ <<<<"home", "own">>, "False">>
          \in TextPaths(ChildNamed(OperationElement, "Demographics"), <<>>)
    /\ <<<<"kids">>, "2">>
          \in TextPaths(ChildNamed(OperationElement, "Demographics"), <<>>)

\* the directory operations of one invocation, in the order of the handler
DirectoryOrder ==
    <<"bind_admin", "search_user", "bind_user", "bind_admin2", "search_group">>

IsPrefix(s, t) == Len(s) <= Len(t) /\ \A i \in DOMAIN s : s[i] = t[i]

\* C15: the directory operations of an invocation happen in the handler's
\* order and each step only after the one before it succeeded: none while
\* no credential has been extracted, the bind as the user only after the DN
\* search returned an entry, the membership search only after the bind as
\* the user succeeded, and Allow only after extraction, DN search, user
\* bind and a membership search that returned the group entry.
C15_StateOrder ==
    /\ IsPrefix(ops, DirectoryOrder)
    /\ ~extracted => ops = <<>>
    /\ Len(ops) >= 3 => (entries # <<>> /\ user_dn = entries[1])
    /\ pc = "bind_user" => entries # <<>>
    /\ Len(ops) >= 4 => user_bound
    /\ pc \in {"bind_admin2", "search_group"} => user_bound
    /\ Returned("Allow") =>
          /\ extracted
          /\ ops = DirectoryOrder
          /\ entries # <<>>
          /\ user_bound
          /\ is_member
          /\ group_entries # <<>>

\* C15 witness: an invocation that went through all five directory
\* operations and returned Allow
C15_Witness ==
    /\ Returned("Allow")
    /\ ops = DirectoryOrder
    /\ user_bound
    /\ user_dn = entries[1]

(***************************************************************************)
(* Properties of the credential cache under concurrent invocations         *)
(***************************************************************************)
\* C12: under any interleaving of concurrent invocations, once the cache
\* holds a fetched (non-empty) secret no step clears it or replaces it by a
\* different value (a racing duplicate write writes the same value), and
\* no invocation that started after that goes on to fetch again.
C12_CacheWrittenOnce ==
    [][ /\ SecretTruthy(ldap_secret) => ldap_secret' = ldap_secret
        /\ \A t \in Threads :
              (c_warm[t] /\ c_pc[t] = "check") => c_pc'[t] # "fetch"
      ]_vars

(***************************************************************************)
(* Properties of the rewrite handler                                       *)
(***************************************************************************)
\* the presented URIs that the pattern ^/underwriting/quote/([A-Za-z0-9\-]+)$
\* matches: /underwriting/quote/abc-123, /underwriting/quote/Q1 and
\* /underwriting/quote/-
MatchingUris == {
    <<47,117,110,100,101,114,119,114,105,116,105,110,103,47,113,117,111,116,101,47,97,98,99,45,49,50,51>>,
    <<47,117,110,100,101,114,119,114,105,116,105,110,103,47,113,117,111,116,101,47,81,49>>,
    <<47,117,110,100,101,114,119,114,105,116,105,110,103,47,113,117,111,116,101,47,45>>
}

InjectedSoapAction == <<[key |-> "SOAPAction", value |-> "\"insurance.com\""]>>

OtherHeaders(h) == DOMAIN h \ {"soapaction"}

\* C20: the returned request carries soapaction = [{key: SOAPAction,
\* value: "insurance.com" in quotes}] set by the handler exactly when the
\* URI matches the pattern and the method is POST; otherwise the request is
\* returned as received; in every case the URI, the method and every
\* header other than soapaction are as received.
C20_SoapActionInjectedIffQuotePost ==
    r_pc = "done" =>
       LET hit == r_request.uri \in MatchingUris /\ r_request.method = "POST" IN
       /\ r_result.uri = r_request.uri
       /\ r_result.method = r_request.method
       /\ OtherHeaders(r_result.headers) = OtherHeaders(r_request.headers)
       /\ \A n \in OtherHeaders(r_request.headers) :
             r_result.headers[n] = r_request.headers[n]
       /\ hit => /\ "soapaction" \in DOMAIN r_result.headers
                 /\ r_result.headers["soapaction"] = InjectedSoapAction
       /\ ~hit => r_result = r_request

\* C20 witness: a POST to /underwriting/quote/abc-123 that arrived with a
\* Host header and another SOAPAction: the header is replaced, Host kept
C20_Witness ==
    /\ r_pc = "done"
    /\ r_request.method = "POST"
    /\ Len(r_request.uri) = 27
    /\ r_request.uri \in MatchingUris
    /\ DOMAIN r_request.headers = {"host", "soapaction"}
    /\ r_request.headers["soapaction"] # InjectedSoapAction
    /\ r_result.headers["soapaction"] = InjectedSoapAction
    /\ r_result.headers["host"] = r_request.headers["host"]

====
